---- MODULE Spec2Model ----
(***************************************************************************)
(* Model of pymongo/ssl_support.py: validate_cert_reqs, _load_wincerts and *)
(* get_ssl_context, with the module globals _WINCERTS and _WINCERTSLOCK,   *)
(* the atexit registry and the capability flags set at import time.        *)
(***************************************************************************)
EXTENDS Integers, Sequences, FiniteSets, TLC

VARIABLES
    env,        \* capability flags fixed at import (HAVE_SSL, sys.platform, hasattr(ctx, ...))
    threads,    \* the threads of the process that call into the module
    WINCERTS,   \* _WINCERTS: NoCertFile (None) or the index of a CertFile in certfiles
    lock,       \* _WINCERTSLOCK: NoThread when free, else the holder
    certfiles,  \* every wincertstore.CertFile constructed so far, by index
    atexit,     \* the callbacks handed to atexit.register, in order
    call,       \* per thread: the call in progress or just finished
    loads,      \* number of times _load_wincerts has been entered
    failures,   \* number of OS store reads that have failed
    exited      \* the interpreter has run its atexit callbacks

vars == <<env, threads, WINCERTS, lock, certfiles, atexit, call, loads, failures, exited>>

---------------------------------------------------------------------------
(* Bounds *)

\* threads calling concurrently
NThreads == 2
\* OS store reads that may fail during one run
MaxFailures == 2

---------------------------------------------------------------------------
(* Python values *)

PyNone == [kind |-> "None", n |-> 0, s |-> ""]
PyInt(i) == [kind |-> "int", n |-> i, s |-> ""]
PyStr(str) == [kind |-> "str", n |-> 0, s |-> str]
PyObj(name) == [kind |-> "object", n |-> 0, s |-> name]

\* _WINCERTS = None
NoCertFile == 0
\* an unlocked threading.Lock()
NoThread == 0

(* The attributes of the standard ssl module that the model knows, with    *)
(* their values: the three verification modes, two protocol constants, a   *)
(* verify flag and the SSLContext class.                                   *)
SslNames == {"CERT_NONE", "CERT_OPTIONAL", "CERT_REQUIRED", "PROTOCOL_SSLv23",
             "PROTOCOL_TLSv1", "VERIFY_DEFAULT", "VERIFY_CRL_CHECK_LEAF",
             "SSLContext"}

SslGetAttr(name) ==
    CASE name = "CERT_NONE" -> PyInt(0)
      [] name = "CERT_OPTIONAL" -> PyInt(1)
      [] name = "CERT_REQUIRED" -> PyInt(2)
      [] name = "PROTOCOL_SSLv23" -> PyInt(2)
      [] name = "PROTOCOL_TLSv1" -> PyInt(3)
      [] name = "VERIFY_DEFAULT" -> PyInt(0)
      [] name = "VERIFY_CRL_CHECK_LEAF" -> PyInt(4)
      [] OTHER -> PyObj(name)

SslHasAttr(name) == name \in SslNames

CERT_NONE == SslGetAttr("CERT_NONE")
CERT_OPTIONAL == SslGetAttr("CERT_OPTIONAL")
CERT_REQUIRED == SslGetAttr("CERT_REQUIRED")

---------------------------------------------------------------------------
(* Errors *)

NoError == [type |-> "", msg |-> ""]
\* get_ssl_context without the ssl module
TLSUnsupported == [type |-> "ConfigurationError", msg |-> "The ssl module is not available."]
\* validate_cert_reqs without the ssl module
TLSUnsupportedOption(option) ==
    [type |-> "ConfigurationError", msg |-> option \o " can't be validated. The ssl module is not available"]
InvalidOption(option) == [type |-> "ValueError", msg |-> option]
UnsupportedCRL == [type |-> "ConfigurationError", msg |-> "Support for ssl_crlfile requires"]
NoTrustMaterial == [type |-> "ConfigurationError", msg |-> "ssl_ca_certs is required."]
\* raised by the ssl library and the OS store, not by this module
InvalidCertificate == [type |-> "SSLError", msg |-> "load_cert_chain"]
InvalidCRL == [type |-> "SSLError", msg |-> "load_verify_locations(crlfile)"]
InvalidCAFile == [type |-> "SSLError", msg |-> "load_verify_locations(ca_certs)"]
InvalidSystemCA == [type |-> "SSLError", msg |-> "system trust source"]
TrustStoreUnavailable == [type |-> "OSError", msg |-> "wincertstore"]
InvalidVerifyMode == [type |-> "TypeError", msg |-> "verify_mode"]

---------------------------------------------------------------------------
(* Capability flags, computed once at import *)

Envs ==
    { e \in [HAVE_SSL : BOOLEAN, HAVE_CERTIFI : BOOLEAN, HAVE_WINCERTSTORE : BOOLEAN,
             win32 : BOOLEAN,
             ctx_options : BOOLEAN, ctx_verify_flags : BOOLEAN,
             ctx_load_default_certs : BOOLEAN,
             ctx_set_default_verify_paths : BOOLEAN,
             ssl_ops : SUBSET {"OP_NO_SSLv2", "OP_NO_SSLv3"}] :
        \* without the ssl module there is no SSLContext class to probe
        /\ ~e.HAVE_SSL => /\ ~e.ctx_options /\ ~e.ctx_verify_flags
                          /\ ~e.ctx_load_default_certs
                          /\ ~e.ctx_set_default_verify_paths
                          /\ e.ssl_ops = {}
        \* the OP_NO_* constants of the module are only read for a context
        \* that has options
        /\ ~e.ctx_options => e.ssl_ops = {}
        \* wincertstore only installs on Windows
        /\ e.HAVE_WINCERTSTORE => e.win32 }

\* Windows with wincertstore and an SSLContext that has no load_default_certs
\* (CPython 3.2 / 3.3): the runtime in which the OS store is consulted
StoreEnv ==
    [HAVE_SSL |-> TRUE, HAVE_CERTIFI |-> FALSE, HAVE_WINCERTSTORE |-> TRUE,
     win32 |-> TRUE, ctx_options |-> TRUE, ctx_verify_flags |-> FALSE,
     ctx_load_default_certs |-> FALSE, ctx_set_default_verify_paths |-> TRUE,
     ssl_ops |-> {"OP_NO_SSLv2", "OP_NO_SSLv3"}]

---------------------------------------------------------------------------
(* SSLContext objects *)

NoCtx ==
    [protocol |-> "", options |-> {}, cert_chain |-> <<>>, verify_flags |-> "",
     locations |-> {}, default_certs |-> FALSE, default_verify_paths |-> FALSE,
     verify_mode |-> PyNone]

\* SSLContext(ssl.PROTOCOL_SSLv23)
SSLContext ==
    [protocol |-> "PROTOCOL_SSLv23",
     options |-> IF env.ctx_options THEN {"OP_ALL"} ELSE {},
     cert_chain |-> <<>>,
     verify_flags |-> IF env.ctx_verify_flags THEN "VERIFY_DEFAULT" ELSE "",
     locations |-> {}, default_certs |-> FALSE, default_verify_paths |-> FALSE,
     verify_mode |-> CERT_NONE]

\* certifi.where()
CertifiWhere == [file |-> "certifi/cacert.pem", id |-> 0]
\* CertFile.name of the i-th CertFile
CertFileName(i) == [file |-> "wincertstore", id |-> i]
\* a path given by the caller
Path(p) == [file |-> p.s, id |-> 0]

---------------------------------------------------------------------------
(* Call frames *)

NoArgs == [certfile |-> PyNone, keyfile |-> PyNone, ca_certs |-> PyNone,
           cert_reqs |-> PyNone, crlfile |-> PyNone]

\* pc: where the thread is; op, option, value, args, faulty: the call and its
\* inputs; ctx: the local ctx; certfile: the local certfile of _load_wincerts;
\* passed: the _WINCERTS read at line 128; steps: the calls made so far;
\* ret, returned, err: what the call gave back
Idle ==
    [pc |-> "idle", op |-> "", option |-> "", value |-> PyNone, ret |-> PyNone,
     args |-> NoArgs, faulty |-> {}, ctx |-> NoCtx, returned |-> NoCtx,
     err |-> NoError, steps |-> <<>>, certfile |-> NoCertFile,
     passed |-> NoCertFile]

Step(f, name) == [f EXCEPT !.steps = Append(@, name)]

\* raise e: the frame unwinds and nothing is returned
Raise(f, e) == [f EXCEPT !.err = e, !.pc = "done"]

\* sequential composition: next, the frame f after one more statement, is
\* reached only if no statement before it raised
Then(f, next) == IF f.pc = "run" THEN next ELSE f

---------------------------------------------------------------------------
(* validate_cert_reqs *)

\* value in (ssl.CERT_NONE, ssl.CERT_OPTIONAL, ssl.CERT_REQUIRED)
IsCertReqs(value) == value \in {CERT_NONE, CERT_OPTIONAL, CERT_REQUIRED}

\* the value after the elif of line 61: a string naming an attribute of the
\* ssl module is replaced by that attribute
LookupSsl(value) ==
    IF value.kind = "str" /\ SslHasAttr(value.s) THEN SslGetAttr(value.s) ELSE value

\* validate_cert_reqs with one definition for both branches of line 47 and
\* the test for None made first
validate_cert_reqs_NoneFirst(f, option, value) ==
    LET g == [f EXCEPT !.pc = "done", !.op = "validate_cert_reqs",
                       !.option = option, !.value = value]
    IN  IF value = PyNone THEN [g EXCEPT !.ret = value]
        ELSE IF ~env.HAVE_SSL THEN Raise(g, TLSUnsupportedOption(option))
        ELSE IF IsCertReqs(LookupSsl(value)) THEN [g EXCEPT !.ret = LookupSsl(value)]
        ELSE Raise(g, InvalidOption(option))

\* validate_cert_reqs with None replaced by the default mode CERT_REQUIRED
validate_cert_reqs_NoneRequired(f, option, value) ==
    LET g == [f EXCEPT !.pc = "done", !.op = "validate_cert_reqs",
                       !.option = option, !.value = value]
    IN  IF ~env.HAVE_SSL THEN Raise(g, TLSUnsupportedOption(option))
        ELSE IF value = PyNone THEN [g EXCEPT !.ret = CERT_REQUIRED]
        ELSE IF IsCertReqs(LookupSsl(value)) THEN [g EXCEPT !.ret = LookupSsl(value)]
        ELSE Raise(g, InvalidOption(option))

\* validate_cert_reqs that takes names only: a value that is not a string
\* naming an attribute of the ssl module is refused
validate_cert_reqs_NamesOnly(f, option, value) ==
    LET g == [f EXCEPT !.pc = "done", !.op = "validate_cert_reqs",
                       !.option = option, !.value = value]
    IN  IF ~env.HAVE_SSL THEN Raise(g, TLSUnsupportedOption(option))
        ELSE IF value = PyNone THEN [g EXCEPT !.ret = value]
        ELSE IF value.kind = "str" /\ IsCertReqs(LookupSsl(value))
             THEN [g EXCEPT !.ret = LookupSsl(value)]
        ELSE Raise(g, InvalidOption(option))

\* validate_cert_reqs(option, value), called on the idle frame f: lines 54-68
\* with the ssl module, lines 139-143 without
validate_cert_reqs(f, option, value) ==
    LET g == [f EXCEPT !.pc = "done", !.op = "validate_cert_reqs",
                       !.option = option, !.value = value]
    IN  IF ~env.HAVE_SSL THEN Raise(g, TLSUnsupportedOption(option))
        ELSE IF value = PyNone THEN [g EXCEPT !.ret = value]
        ELSE IF IsCertReqs(LookupSsl(value)) THEN [g EXCEPT !.ret = LookupSsl(value)]
        ELSE Raise(g, InvalidOption(option))

---------------------------------------------------------------------------
(* get_ssl_context: the statements that touch only the call's own context *)

\* line 95
NewContext(f) == Step([f EXCEPT !.ctx = SSLContext], "SSLContext")

\* Harden with the options assigned (=) where lines 102-103 or them in (|=)
HardenAssign(f) ==
    IF env.ctx_options
    THEN Step([f EXCEPT !.ctx.options =
                   env.ssl_ops \cap {"OP_NO_SSLv2", "OP_NO_SSLv3"}], "options")
    ELSE f

\* lines 96-103: getattr(ssl, "OP_NO_SSLvN", 0) is 0 when the module lacks it
Harden(f) ==
    IF env.ctx_options
    THEN Step([f EXCEPT !.ctx.options =
                   (@ \cup (env.ssl_ops \cap {"OP_NO_SSLv2"}))
                      \cup (env.ssl_ops \cap {"OP_NO_SSLv3"})], "options")
    ELSE f

\* LoadCertChain with the error of load_cert_chain caught and dropped
LoadCertChainSwallow(f) ==
    IF f.args.certfile # PyNone
    THEN LET g == Step(f, "load_cert_chain")
         IN  IF "certfile" \in f.faulty THEN g
             ELSE [g EXCEPT !.ctx.cert_chain = <<f.args.certfile, f.args.keyfile>>]
    ELSE f

\* lines 104-105
LoadCertChain(f) ==
    IF f.args.certfile # PyNone
    THEN LET g == Step(f, "load_cert_chain")
         IN  IF "certfile" \in f.faulty THEN Raise(g, InvalidCertificate)
             ELSE [g EXCEPT !.ctx.cert_chain = <<f.args.certfile, f.args.keyfile>>]
    ELSE f

\* CrlStep without the test of line 107
CrlStepNoCheck(f) ==
    IF f.args.crlfile # PyNone
    THEN LET g == Step([f EXCEPT !.ctx.verify_flags = "VERIFY_CRL_CHECK_LEAF"],
                       "verify_flags")
             h == Step(g, "load_verify_locations(crlfile)")
         IN  IF "crlfile" \in f.faulty THEN Raise(h, InvalidCRL)
             ELSE [h EXCEPT !.ctx.locations = @ \cup {Path(f.args.crlfile)}]
    ELSE f

\* lines 106-113
CrlStep(f) ==
    IF f.args.crlfile # PyNone
    THEN IF ~env.ctx_verify_flags THEN Raise(f, UnsupportedCRL)
         ELSE LET g == Step([f EXCEPT !.ctx.verify_flags = "VERIFY_CRL_CHECK_LEAF"],
                            "verify_flags")
                  h == Step(g, "load_verify_locations(crlfile)")
              IN  IF "crlfile" \in f.faulty THEN Raise(h, InvalidCRL)
                  ELSE [h EXCEPT !.ctx.locations = @ \cup {Path(f.args.crlfile)}]
    ELSE f

\* CAResolutionChain with the bundled CA file tried before the OS store and
\* the platform test of line 121 dropped
CAResolutionChainReordered(f) ==
    IF env.ctx_load_default_certs
    THEN LET g == Step(f, "load_default_certs")
         IN  IF "system" \in f.faulty THEN Raise(g, InvalidSystemCA)
             ELSE [g EXCEPT !.ctx.default_certs = TRUE]
    ELSE IF env.ctx_set_default_verify_paths
    THEN [Step(f, "set_default_verify_paths") EXCEPT !.ctx.default_verify_paths = TRUE]
    ELSE IF env.HAVE_CERTIFI
    THEN LET g == Step(f, "load_verify_locations(certifi.where())")
         IN  IF "system" \in f.faulty THEN Raise(g, InvalidSystemCA)
             ELSE [g EXCEPT !.ctx.locations = @ \cup {CertifiWhere}]
    ELSE IF env.win32 /\ env.HAVE_WINCERTSTORE
    THEN [Step(f, "with _WINCERTSLOCK") EXCEPT !.pc = "acquire"]
    ELSE Raise(f, NoTrustMaterial)

\* lines 117-135, up to the with statement of line 125
CAResolutionChain(f) ==
    IF env.ctx_load_default_certs
    THEN LET g == Step(f, "load_default_certs")
         IN  IF "system" \in f.faulty THEN Raise(g, InvalidSystemCA)
             ELSE [g EXCEPT !.ctx.default_certs = TRUE]
    ELSE IF ~env.win32 /\ env.ctx_set_default_verify_paths
    THEN [Step(f, "set_default_verify_paths") EXCEPT !.ctx.default_verify_paths = TRUE]
    ELSE IF env.win32 /\ env.HAVE_WINCERTSTORE
    THEN [Step(f, "with _WINCERTSLOCK") EXCEPT !.pc = "acquire"]
    ELSE IF env.HAVE_CERTIFI
    THEN LET g == Step(f, "load_verify_locations(certifi.where())")
         IN  IF "system" \in f.faulty THEN Raise(g, InvalidSystemCA)
             ELSE [g EXCEPT !.ctx.locations = @ \cup {CertifiWhere}]
    ELSE Raise(f, NoTrustMaterial)

\* line 114: ctx.load_verify_locations(ca_certs)
LoadCaCerts(f) ==
    LET g == Step(f, "load_verify_locations(ca_certs)")
    IN  IF "ca_certs" \in f.faulty THEN Raise(g, InvalidCAFile)
        ELSE [g EXCEPT !.ctx.locations = @ \cup {Path(f.args.ca_certs)}]

\* TrustStep with the elif of line 116 written as an if
TrustStepNoElif(f) ==
    LET g == IF f.args.ca_certs # PyNone THEN LoadCaCerts(f) ELSE f
    IN  IF g.pc = "run" /\ f.args.cert_reqs # CERT_NONE THEN CAResolutionChain(g) ELSE g

\* TrustStep with the chain entered only for a cert_reqs that is set
TrustStepUnsetSkips(f) ==
    IF f.args.ca_certs # PyNone THEN LoadCaCerts(f)
    ELSE IF f.args.cert_reqs # CERT_NONE /\ f.args.cert_reqs # PyNone
         THEN CAResolutionChain(f)
         ELSE f

\* TrustStep without the test of cert_reqs at line 116
TrustStepAlwaysChain(f) ==
    IF f.args.ca_certs # PyNone THEN LoadCaCerts(f) ELSE CAResolutionChain(f)

\* lines 114-116
TrustStep(f) ==
    IF f.args.ca_certs # PyNone THEN LoadCaCerts(f)
    ELSE IF f.args.cert_reqs # CERT_NONE THEN CAResolutionChain(f)
    ELSE f

\* SetVerifyMode without the default of line 136
SetVerifyModeNoDefault(f) ==
    LET mode == f.args.cert_reqs
        g == Step(f, "verify_mode")
    IN  IF ~IsCertReqs(mode) /\ "verify_mode" \in f.faulty
        THEN Raise(g, InvalidVerifyMode)
        ELSE LET h == [g EXCEPT !.ctx.verify_mode = mode]
             IN  [h EXCEPT !.pc = "done", !.returned = h.ctx]

\* lines 136-137. Assigning something that is not a verification mode is
\* refused by ssl.SSLContext; whether the SSLContext class in use refuses it
\* is an input of the call ("verify_mode" in faulty).
SetVerifyMode(f) ==
    LET mode == IF f.args.cert_reqs = PyNone THEN CERT_REQUIRED ELSE f.args.cert_reqs
        g == Step(f, "verify_mode")
    IN  IF ~IsCertReqs(mode) /\ "verify_mode" \in f.faulty
        THEN Raise(g, InvalidVerifyMode)
        ELSE LET h == [g EXCEPT !.ctx.verify_mode = mode]
             IN  [h EXCEPT !.pc = "done", !.returned = h.ctx]

\* get_ssl_context with the CRL statements (lines 106-113) put before the
\* client certificate (lines 104-105)
get_ssl_context_CrlFirst(f, args, faulty) ==
    LET g == [f EXCEPT !.pc = "run", !.op = "get_ssl_context", !.args = args,
                       !.faulty = faulty]
    IN  IF ~env.HAVE_SSL THEN Raise(g, TLSUnsupported)
        ELSE LET c1 == NewContext(g)
                 c2 == Then(c1, Harden(c1))
                 c3 == Then(c2, CrlStep(c2))
                 c4 == Then(c3, LoadCertChain(c3))
                 c5 == Then(c4, TrustStep(c4))
             IN  Then(c5, SetVerifyMode(c5))

\* get_ssl_context(*args) from its first statement to its return, its raise,
\* or the with statement of line 125 (pc = "acquire")
get_ssl_context(f, args, faulty) ==
    LET g == [f EXCEPT !.pc = "run", !.op = "get_ssl_context", !.args = args,
                       !.faulty = faulty]
    IN  IF ~env.HAVE_SSL THEN Raise(g, TLSUnsupported)
        ELSE LET c1 == NewContext(g)
                 c2 == Then(c1, Harden(c1))
                 c3 == Then(c2, LoadCertChain(c2))
                 c4 == Then(c3, CrlStep(c3))
                 c5 == Then(c4, TrustStep(c4))
             IN  Then(c5, SetVerifyMode(c5))

---------------------------------------------------------------------------
(* Inputs *)

\* several threads are calling
Concurrent == Cardinality(threads) > 1

CertReqsInputs ==
    {PyNone, CERT_NONE, CERT_OPTIONAL, CERT_REQUIRED, PyStr("CERT_NONE"),
     PyStr("CERT_REQUIRED")}

\* A single caller passes any combination of options; concurrent callers
\* pass the default options, with verification required or switched off.
ArgsInputs ==
    IF Concurrent
    THEN {[NoArgs EXCEPT !.cert_reqs = r] : r \in {PyNone, CERT_NONE}}
    ELSE { a \in [certfile : {PyNone, PyStr("client.pem")},
                   keyfile : {PyNone, PyStr("client.key")},
                   ca_certs : {PyNone, PyStr("ca.pem")},
                   cert_reqs : CertReqsInputs,
                   crlfile : {PyNone, PyStr("crl.pem")}] :
               \* a key file comes with a certificate file
               a.keyfile # PyNone => a.certfile # PyNone }

\* what can go wrong in a call with these arguments: an unreadable file among
\* those given, an unreadable system trust source, a refused verify_mode
Faults(args) ==
    IF Concurrent THEN {{}}
    ELSE SUBSET ( (IF args.certfile # PyNone THEN {"certfile"} ELSE {})
                  \cup (IF args.crlfile # PyNone THEN {"crlfile"} ELSE {})
                  \cup (IF args.ca_certs # PyNone THEN {"ca_certs"} ELSE {"system"})
                  \cup (IF args.cert_reqs.kind = "str" THEN {"verify_mode"} ELSE {}) )

OptionInputs == IF Concurrent THEN {"ssl_cert_reqs"} ELSE {"ssl_cert_reqs", "tlsCertReqs"}

ValueInputs ==
    IF Concurrent THEN {PyStr("CERT_REQUIRED")}
    ELSE {PyNone, PyObj("object")}
         \cup {PyInt(i) : i \in 0..3}
         \cup {PyStr(n) : n \in SslNames \cup {"required", ""}}

---------------------------------------------------------------------------
(* Actions *)

Init ==
    \* either one thread in any runtime, or NThreads threads in the runtime
    \* that consults the OS store
    /\ \/ env \in Envs /\ threads = {1}
       \/ env = StoreEnv /\ threads = 1..NThreads
    /\ WINCERTS = NoCertFile
    /\ lock = NoThread
    /\ certfiles = <<>>
    /\ atexit = <<>>
    /\ call = [t \in threads |-> Idle]
    /\ loads = 0
    /\ failures = 0
    /\ exited = FALSE

shared == <<WINCERTS, lock, certfiles, atexit, loads, failures>>

\* a thread calls validate_cert_reqs(option, value)
CallValidate(t) ==
    /\ ~exited /\ call[t].pc = "idle"
    /\ \E option \in OptionInputs, value \in ValueInputs :
           call' = [call EXCEPT ![t] = validate_cert_reqs(Idle, option, value)]
    /\ UNCHANGED <<env, threads, shared, exited>>

\* CallGetSslContext with the cache dropped at the start of every call
CallGetSslContextResets(t) ==
    /\ ~exited /\ call[t].pc = "idle"
    /\ \E args \in ArgsInputs : \E faulty \in Faults(args) :
           call' = [call EXCEPT ![t] = get_ssl_context(Idle, args, faulty)]
    /\ WINCERTS' = NoCertFile
    /\ UNCHANGED <<env, threads, lock, certfiles, atexit, loads, failures, exited>>

\* a thread calls get_ssl_context(certfile, keyfile, ca_certs, cert_reqs, crlfile)
CallGetSslContext(t) ==
    /\ ~exited /\ call[t].pc = "idle"
    /\ \E args \in ArgsInputs : \E faulty \in Faults(args) :
           call' = [call EXCEPT ![t] = get_ssl_context(Idle, args, faulty)]
    /\ UNCHANGED <<env, threads, shared, exited>>

\* the caller takes the result; the thread is free for its next call
Return(t) ==
    /\ ~exited /\ call[t].pc = "done"
    /\ call' = [call EXCEPT ![t] = Idle]
    /\ UNCHANGED <<env, threads, shared, exited>>

\* AcquireLock without the wait for the holder to release
AcquireLockNoWait(t) ==
    /\ ~exited /\ call[t].pc = "acquire"
    /\ lock' = t
    /\ call' = [call EXCEPT ![t].pc = "check"]
    /\ UNCHANGED <<env, threads, WINCERTS, certfiles, atexit, loads, failures, exited>>

\* line 125: with _WINCERTSLOCK (blocks while another thread holds it)
AcquireLock(t) ==
    /\ ~exited /\ call[t].pc = "acquire"
    /\ lock = NoThread
    /\ lock' = t
    /\ call' = [call EXCEPT ![t].pc = "check"]
    /\ UNCHANGED <<env, threads, WINCERTS, certfiles, atexit, loads, failures, exited>>

\* CheckWincerts without the test of line 126: every call loads the store
CheckWincertsAlways(t) ==
    /\ ~exited /\ call[t].pc = "check"
    /\ call' = [call EXCEPT ![t] = [Step(@, "_load_wincerts") EXCEPT !.pc = "CertFile"]]
    /\ loads' = loads + 1
    /\ UNCHANGED <<env, threads, WINCERTS, lock, certfiles, atexit, failures, exited>>

\* line 126: if _WINCERTS is None, then line 127 enters _load_wincerts
CheckWincerts(t) ==
    /\ ~exited /\ call[t].pc = "check"
    /\ IF WINCERTS = NoCertFile
       THEN /\ call' = [call EXCEPT ![t] = [Step(@, "_load_wincerts") EXCEPT !.pc = "CertFile"]]
            /\ loads' = loads + 1
       ELSE /\ call' = [call EXCEPT ![t].pc = "release"]
            /\ UNCHANGED loads
    /\ UNCHANGED <<env, threads, WINCERTS, lock, certfiles, atexit, failures, exited>>

\* a read of the OS store fails: the exception leaves _load_wincerts
StoreFails(t) ==
    /\ failures < MaxFailures
    /\ failures' = failures + 1
    /\ call' = [call EXCEPT ![t] = [@ EXCEPT !.err = TrustStoreUnavailable, !.pc = "unwind"]]

\* NewCertFile with the global assigned as soon as the CertFile exists
\* (_WINCERTS = CertFile() in place of the local of line 74)
NewCertFileGlobal(t) ==
    /\ ~exited /\ call[t].pc = "CertFile"
    /\ \/ /\ certfiles' = Append(certfiles, [stores |-> {}, closed |-> 0])
          /\ WINCERTS' = Len(certfiles) + 1
          /\ call' = [call EXCEPT ![t] = [@ EXCEPT !.certfile = Len(certfiles) + 1,
                                                   !.pc = "addstore(CA)"]]
          /\ UNCHANGED failures
       \/ StoreFails(t) /\ UNCHANGED <<certfiles, WINCERTS>>
    /\ UNCHANGED <<env, threads, lock, atexit, loads, exited>>

\* line 74: certfile = CertFile()
NewCertFile(t) ==
    /\ ~exited /\ call[t].pc = "CertFile"
    /\ \/ /\ certfiles' = Append(certfiles, [stores |-> {}, closed |-> 0])
          /\ call' = [call EXCEPT ![t] = [@ EXCEPT !.certfile = Len(certfiles) + 1,
                                                   !.pc = "addstore(CA)"]]
          /\ UNCHANGED failures
       \/ StoreFails(t) /\ UNCHANGED certfiles
    /\ UNCHANGED <<env, threads, WINCERTS, lock, atexit, loads, exited>>

\* lines 75 and 76: certfile.addstore("CA"); certfile.addstore("ROOT")
AddStore(t) ==
    /\ ~exited /\ call[t].pc \in {"addstore(CA)", "addstore(ROOT)"}
    /\ \/ /\ certfiles' = [certfiles EXCEPT ![call[t].certfile].stores =
                              @ \cup {IF call[t].pc = "addstore(CA)" THEN "CA" ELSE "ROOT"}]
          /\ call' = [call EXCEPT ![t].pc =
                         IF @ = "addstore(CA)" THEN "addstore(ROOT)" ELSE "atexit.register"]
          /\ UNCHANGED failures
       \/ StoreFails(t) /\ UNCHANGED certfiles
    /\ UNCHANGED <<env, threads, WINCERTS, lock, atexit, loads, exited>>

\* line 77: atexit.register(certfile.close)
AtexitRegister(t) ==
    /\ ~exited /\ call[t].pc = "atexit.register"
    /\ atexit' = Append(atexit, call[t].certfile)
    /\ call' = [call EXCEPT ![t].pc = "_WINCERTS = certfile"]
    /\ UNCHANGED <<env, threads, WINCERTS, lock, certfiles, loads, failures, exited>>

\* line 79: _WINCERTS = certfile
AssignWincerts(t) ==
    /\ ~exited /\ call[t].pc = "_WINCERTS = certfile"
    /\ WINCERTS' = call[t].certfile
    /\ call' = [call EXCEPT ![t].pc = "release"]
    /\ UNCHANGED <<env, threads, lock, certfiles, atexit, loads, failures, exited>>

\* ReleaseLock as acquire() ... release() without try/finally: an exception
\* skips the release
ReleaseLockNoFinally(t) ==
    /\ ~exited /\ call[t].pc \in {"release", "unwind"}
    /\ lock' = IF call[t].pc = "unwind" THEN lock ELSE NoThread
    /\ call' = [call EXCEPT ![t].pc = IF @ = "unwind" THEN "done" ELSE "load"]
    /\ UNCHANGED <<env, threads, WINCERTS, certfiles, atexit, loads, failures, exited>>

\* the end of the with statement, reached normally or by an exception that
\* then goes on to the caller
ReleaseLock(t) ==
    /\ ~exited /\ call[t].pc \in {"release", "unwind"}
    /\ lock' = NoThread
    /\ call' = [call EXCEPT ![t].pc = IF @ = "unwind" THEN "done" ELSE "load"]
    /\ UNCHANGED <<env, threads, WINCERTS, certfiles, atexit, loads, failures, exited>>

\* line 128: ctx.load_verify_locations(_WINCERTS.name), then lines 136-137
LoadWincertsName(t) ==
    /\ ~exited /\ call[t].pc = "load"
    /\ LET f == Step([call[t] EXCEPT !.pc = "run", !.passed = WINCERTS],
                     "load_verify_locations(_WINCERTS.name)")
           g == IF WINCERTS = NoCertFile
                THEN Raise(f, [type |-> "AttributeError", msg |-> "name"])
                ELSE IF "system" \in f.faulty THEN Raise(f, InvalidSystemCA)
                ELSE [f EXCEPT !.ctx.locations = @ \cup {CertFileName(WINCERTS)}]
       IN  call' = [call EXCEPT ![t] = Then(g, SetVerifyMode(g))]
    /\ UNCHANGED <<env, threads, shared, exited>>

\* interpreter shutdown: the threads have finished their calls and every
\* registered callback runs once
Exit ==
    /\ ~exited
    /\ \A t \in threads : call[t].pc = "idle"
    /\ exited' = TRUE
    /\ certfiles' = [i \in DOMAIN certfiles |->
                        [certfiles[i] EXCEPT !.closed =
                            @ + Cardinality({k \in DOMAIN atexit : atexit[k] = i})]]
    /\ UNCHANGED <<env, threads, WINCERTS, lock, atexit, call, loads, failures>>

Next ==
    \/ \E t \in threads : CallValidate(t)
    \/ \E t \in threads : CallGetSslContext(t)
    \/ \E t \in threads : Return(t)
    \/ \E t \in threads : AcquireLock(t)
    \/ \E t \in threads : CheckWincerts(t)
    \/ \E t \in threads : NewCertFile(t)
    \/ \E t \in threads : AddStore(t)
    \/ \E t \in threads : AtexitRegister(t)
    \/ \E t \in threads : AssignWincerts(t)
    \/ \E t \in threads : ReleaseLock(t)
    \/ \E t \in threads : LoadWincertsName(t)
    \/ Exit

Spec == Init /\ [][Next]_vars

\* the steps of thread t between lines 125 and 128: once the lock is taken
\* nothing but the scheduler stands between the thread and the next statement
Proceed(t) ==
    /\ t \in threads
    /\ \/ CheckWincerts(t) \/ NewCertFile(t) \/ AddStore(t) \/ AtexitRegister(t)
       \/ AssignWincerts(t) \/ ReleaseLock(t) \/ LoadWincertsName(t)

\* line 125 for thread t
Acquire(t) == t \in threads /\ AcquireLock(t)

\* fair scheduling: a thread that can run is eventually run (every file and
\* store read of lines 74-76 and 128 ends, with a result or an error), and a
\* thread waiting for _WINCERTSLOCK gets it if the lock is released again and
\* again
Fairness ==
    \A t \in 1..NThreads : WF_vars(Proceed(t)) /\ SF_vars(Acquire(t))

\* the runs in which several threads call at the same time
InitThreads == Init /\ Concurrent

FairSpec == InitThreads /\ [][Next]_vars /\ Fairness

---------------------------------------------------------------------------
(* Properties *)

Range(seq) == {seq[i] : i \in DOMAIN seq}

\* the call of frame f has made the call named
Did(f, name) == name \in Range(f.steps)

\* the frames of calls to get_ssl_context, in progress or finished
Builds == {call[t] : t \in {u \in threads : call[u].op = "get_ssl_context"}}

\* the frames of calls to validate_cert_reqs
Validations == {call[t] : t \in {u \in threads : call[u].op = "validate_cert_reqs"}}

\* C1: as long as no OS store read has failed, _load_wincerts has been entered
\* at most once, at most one CertFile exists, and every call that got to
\* line 128 found _load_wincerts entered exactly once and passed the one
\* handle that _WINCERTS holds, whatever the number of threads and their
\* interleaving.
C1_SingleLoad ==
    failures = 0 =>
        /\ loads <= 1
        /\ Len(certfiles) <= 1
        /\ \A t \in threads :
              Did(call[t], "load_verify_locations(_WINCERTS.name)") =>
                  /\ loads = 1
                  /\ call[t].passed # NoCertFile
                  /\ call[t].passed = WINCERTS
                  /\ \A u \in threads :
                        Did(call[u], "load_verify_locations(_WINCERTS.name)") =>
                            call[u].passed = call[t].passed

\* every thread of a concurrent run has made its call on the OS store branch
\* and passed the handle, with no store read failing
C1_Witness ==
    /\ Concurrent
    /\ failures = 0
    /\ loads = 1
    /\ \A t \in threads :
          /\ call[t].pc = "done" /\ call[t].err = NoError
          /\ Did(call[t], "load_verify_locations(_WINCERTS.name)")
          /\ call[t].passed = WINCERTS

\* the trust sources of steps 3 to 6, by the call that uses each
SourceSteps ==
    {"load_default_certs", "set_default_verify_paths", "with _WINCERTSLOCK",
     "load_verify_locations(certifi.where())"}

Sources(f) == Range(f.steps) \cap SourceSteps

\* the first applicable source in the order (3), (4), (5), (6); "" when none
\* applies, which is (7)
FirstApplicable ==
    IF env.ctx_load_default_certs THEN "load_default_certs"
    ELSE IF ~env.win32 /\ env.ctx_set_default_verify_paths THEN "set_default_verify_paths"
    ELSE IF env.win32 /\ env.HAVE_WINCERTSTORE THEN "with _WINCERTSLOCK"
    ELSE IF env.HAVE_CERTIFI THEN "load_verify_locations(certifi.where())"
    ELSE ""

\* the call of frame f ended before the statement of line 114
FailedBeforeTrust(f) ==
    f.err \in {TLSUnsupported, InvalidCertificate, UnsupportedCRL, InvalidCRL}

\* C2: in a call without ca_certs and with cert_reqs other than CERT_NONE, no
\* source but the first applicable one is ever used, and once the call has
\* got to the choice it has used exactly that one, or raised NoTrustMaterial
\* when none applies; NoTrustMaterial is raised in no other case.
C2_FirstApplicableSource ==
    \A f \in Builds :
        (f.args.ca_certs = PyNone /\ f.args.cert_reqs # CERT_NONE) =>
            /\ Sources(f) \subseteq {FirstApplicable}
            /\ Cardinality(Sources(f)) <= 1
            /\ ~FailedBeforeTrust(f) =>
                   /\ Sources(f) = {FirstApplicable} \ {""}
                   /\ (f.err = NoTrustMaterial) <=> (FirstApplicable = "")

\* on Windows, without load_default_certs and wincertstore but with
\* set_default_verify_paths and certifi, a call used the certifi bundle
C2_Witness ==
    \E f \in Builds :
        /\ env.win32 /\ env.ctx_set_default_verify_paths /\ env.HAVE_CERTIFI
        /\ f.pc = "done" /\ f.err = NoError
        /\ f.args.ca_certs = PyNone /\ f.args.cert_reqs = CERT_OPTIONAL
        /\ Sources(f) = {"load_verify_locations(certifi.where())"}

\* the CA resolution chain was entered: it used a source or found none
ChainRan(f) == Sources(f) # {} \/ f.err = NoTrustMaterial

\* C3 as stated: the chain never runs with ca_certs given or cert_reqs
\* CERT_NONE, and (the ssl module being there) it runs in every call without
\* ca_certs whose cert_reqs is unset, CERT_OPTIONAL or CERT_REQUIRED.
C3_Original ==
    \A f \in Builds :
        /\ (f.args.ca_certs # PyNone \/ f.args.cert_reqs = CERT_NONE) => ~ChainRan(f)
        /\ (env.HAVE_SSL /\ f.args.ca_certs = PyNone
              /\ f.args.cert_reqs \in {PyNone, CERT_OPTIONAL, CERT_REQUIRED}) => ChainRan(f)

\* C3: the chain never runs with ca_certs given or cert_reqs CERT_NONE (no
\* source of steps 3 to 6 is used and NoTrustMaterial is not raised); without
\* ca_certs and with cert_reqs unset, CERT_OPTIONAL or CERT_REQUIRED it runs
\* exactly when the call did not end at an earlier step (ssl module missing,
\* client certificate load, CRL check, CRL load).
C3_ChainGuard ==
    \A f \in Builds :
        /\ (f.args.ca_certs # PyNone \/ f.args.cert_reqs = CERT_NONE) => ~ChainRan(f)
        /\ (f.args.ca_certs = PyNone
              /\ f.args.cert_reqs \in {PyNone, CERT_OPTIONAL, CERT_REQUIRED}) =>
                 (ChainRan(f) <=> ~FailedBeforeTrust(f))

\* a call with ca_certs and cert_reqs unset loaded ca_certs and returned a
\* context without touching the default certificates that the runtime offers
C3_Witness ==
    \E f \in Builds :
        /\ f.pc = "done" /\ f.err = NoError
        /\ f.args.ca_certs # PyNone /\ f.args.cert_reqs = PyNone
        /\ FirstApplicable = "load_default_certs"
        /\ ~ChainRan(f)
        /\ Did(f, "load_verify_locations(ca_certs)")

\* a call with cert_reqs unset and no ca_certs ran the chain
C3_WitnessChain ==
    \E f \in Builds :
        /\ f.pc = "done" /\ f.err = NoError
        /\ f.args.ca_certs = PyNone /\ f.args.cert_reqs = PyNone
        /\ ChainRan(f)

\* no trust source at all: none of load_default_certs, wincertstore, certifi
NoTrustFlags ==
    ~env.ctx_load_default_certs /\ ~env.HAVE_WINCERTSTORE /\ ~env.HAVE_CERTIFI

\* C4 as stated, for a call that gives no other option: with cert_reqs
\* CERT_REQUIRED or unset, no ca_certs and the three trust-source flags false,
\* the call raises NoTrustMaterial and returns no context.
C4_Original ==
    \A f \in Builds :
        (/\ env.HAVE_SSL /\ NoTrustFlags
         /\ f.args.cert_reqs \in {PyNone, CERT_REQUIRED}
         /\ f.args.ca_certs = PyNone
         /\ f.args.certfile = PyNone /\ f.args.crlfile = PyNone) =>
            /\ f.err = NoTrustMaterial
            /\ f.returned = NoCtx

\* step (4) does not apply: Windows, or a context without
\* set_default_verify_paths
NoDefaultVerifyPaths == env.win32 \/ ~env.ctx_set_default_verify_paths

\* C4: with cert_reqs CERT_REQUIRED or unset, no ca_certs, the three
\* trust-source flags false and step (4) not applicable, the call returns no
\* context; it raises NoTrustMaterial unless it ended at an earlier step. Where
\* step (4) applies the same call uses set_default_verify_paths and does not
\* raise NoTrustMaterial.
C4_NoTrustMaterial ==
    \A f \in Builds :
        (/\ NoTrustFlags
         /\ f.args.cert_reqs \in {PyNone, CERT_REQUIRED}
         /\ f.args.ca_certs = PyNone) =>
            IF NoDefaultVerifyPaths \/ ~env.HAVE_SSL
            THEN /\ f.pc = "done"
                 /\ f.returned = NoCtx
                 /\ f.err # NoError
                 /\ ~FailedBeforeTrust(f) => f.err = NoTrustMaterial
            ELSE /\ f.err # NoTrustMaterial
                 /\ ~FailedBeforeTrust(f) => Did(f, "set_default_verify_paths")

\* a call with the defaults raised NoTrustMaterial
C4_Witness ==
    \E f \in Builds :
        /\ env.HAVE_SSL /\ NoTrustFlags /\ NoDefaultVerifyPaths
        /\ f.pc = "done" /\ f.args = NoArgs
        /\ f.err = NoTrustMaterial /\ f.returned = NoCtx

\* the calls that returned a context
Returned == {f \in Builds : f.pc = "done" /\ f.err = NoError}

Aliases == {"CERT_NONE", "CERT_OPTIONAL", "CERT_REQUIRED"}

AliasMode(name) ==
    CASE name = "CERT_NONE" -> PyInt(0)
      [] name = "CERT_OPTIONAL" -> PyInt(1)
      [] name = "CERT_REQUIRED" -> PyInt(2)

\* C6 as stated: with the ssl module, validate_cert_reqs returns the matching
\* mode for each of the three aliases, and raises ValueError naming the option
\* for every other value that is neither None nor one of the three modes, a
\* string naming any other attribute of the ssl module included.
C6_Claim ==
    env.HAVE_SSL =>
        \A v \in Validations :
            /\ (v.value.kind = "str" /\ v.value.s \in Aliases) =>
                   (v.err = NoError /\ v.ret = AliasMode(v.value.s))
            /\ (/\ v.value # PyNone
                /\ ~IsCertReqs(v.value)
                /\ ~(v.value.kind = "str" /\ v.value.s \in Aliases)) =>
                   v.err = InvalidOption(v.option)

\* C7 as stated: with crlfile given and a context without verify_flags the
\* call raises UnsupportedCRL, whatever the other options, and neither sets
\* the CRL flag nor reads the CRL file.
C7_Original ==
    \A f \in Builds :
        (env.HAVE_SSL /\ f.args.crlfile # PyNone /\ ~env.ctx_verify_flags) =>
            /\ f.pc = "done"
            /\ f.err = UnsupportedCRL
            /\ ~Did(f, "load_verify_locations(crlfile)")
            /\ ~Did(f, "verify_flags")
            /\ f.ctx.verify_flags # "VERIFY_CRL_CHECK_LEAF"

\* C7: with crlfile given and a context without verify_flags the call returns
\* no context and neither sets the CRL flag nor reads the CRL file nor goes on
\* to the trust material, whatever the other options; it raises UnsupportedCRL
\* unless certfile was given and failed to load, and then it raises that
\* load's error.
C7_UnsupportedCRL ==
    \A f \in Builds :
        (env.HAVE_SSL /\ f.args.crlfile # PyNone /\ ~env.ctx_verify_flags) =>
            /\ f.pc = "done"
            /\ f.returned = NoCtx
            /\ f.err = IF "certfile" \in f.faulty THEN InvalidCertificate ELSE UnsupportedCRL
            /\ ~Did(f, "load_verify_locations(crlfile)")
            /\ ~Did(f, "verify_flags")
            /\ f.ctx.verify_flags # "VERIFY_CRL_CHECK_LEAF"
            /\ f.ctx.locations = {}
            /\ ~ChainRan(f)

\* a call with every option given, the client certificate loaded, raised
\* UnsupportedCRL
C7_Witness ==
    \E f \in Builds :
        /\ ~env.ctx_verify_flags
        /\ f.args.certfile # PyNone /\ f.args.keyfile # PyNone
        /\ f.args.ca_certs # PyNone /\ f.args.crlfile # PyNone
        /\ f.args.cert_reqs = CERT_REQUIRED
        /\ Did(f, "load_cert_chain")
        /\ f.err = UnsupportedCRL

\* C8: without the ssl module every call of validate_cert_reqs and of
\* get_ssl_context, whatever its arguments, ends at once with a
\* ConfigurationError; no context is created or returned, no value is
\* returned, no file is read, and _WINCERTS, the lock, the CertFiles and the
\* exit callbacks stay as at import.
C8_TLSUnsupported ==
    ~env.HAVE_SSL =>
        /\ \A t \in threads : call[t].pc # "idle" =>
              /\ call[t].pc = "done"
              /\ call[t].err.type = "ConfigurationError"
              /\ call[t].err = IF call[t].op = "validate_cert_reqs"
                               THEN TLSUnsupportedOption(call[t].option)
                               ELSE TLSUnsupported
              /\ call[t].ctx = NoCtx /\ call[t].returned = NoCtx
              /\ call[t].steps = <<>>
        /\ WINCERTS = NoCertFile /\ lock = NoThread
        /\ certfiles = <<>> /\ atexit = <<>> /\ loads = 0

\* without the ssl module, validate_cert_reqs was called with None and raised
C8_Witness ==
    /\ ~env.HAVE_SSL
    /\ \E v \in Validations :
          /\ v.pc = "done" /\ v.value = PyNone
          /\ v.err = TLSUnsupportedOption(v.option)

\* the places of a thread inside the with statement of line 125
InWith ==
    {"check", "CertFile", "addstore(CA)", "addstore(ROOT)", "atexit.register",
     "_WINCERTS = certfile", "release", "unwind"}

\* a failed load: the error is on its way to the caller with _WINCERTS unset;
\* once it has arrived the caller got no context and does not hold the lock;
\* a load that did not fail has set _WINCERTS; the lock is held only by a
\* thread inside the with statement
C9_State ==
    /\ \A t \in threads :
          /\ call[t].pc = "unwind" =>
                /\ call[t].err = TrustStoreUnavailable
                /\ WINCERTS = NoCertFile
                /\ lock = t
          /\ (call[t].pc = "done" /\ call[t].err = TrustStoreUnavailable) =>
                /\ Did(call[t], "_load_wincerts")
                /\ call[t].returned = NoCtx
                /\ lock # t
          /\ (call[t].pc \in {"load", "done"} /\ Did(call[t], "_load_wincerts")
                /\ call[t].err # TrustStoreUnavailable) =>
                WINCERTS # NoCertFile
    /\ lock # NoThread => call[lock].pc \in InWith

\* the step that takes a failed load out of the with statement hands the
\* error to the caller, leaves _WINCERTS unset and frees the lock; a call that
\* finds _WINCERTS unset at line 126 enters _load_wincerts
C9_Step ==
    \A t \in threads :
        /\ (call[t].pc = "unwind" /\ call'[t].pc # "unwind") =>
              /\ call'[t].pc = "done"
              /\ call'[t].err = TrustStoreUnavailable
              /\ WINCERTS' = NoCertFile
              /\ lock' = NoThread
        /\ (call[t].pc = "check" /\ call'[t].pc # "check" /\ WINCERTS = NoCertFile) =>
              /\ call'[t].pc = "CertFile"
              /\ loads' = loads + 1

\* C9: a failed OS store read does not poison the cache. Whichever step of
\* _load_wincerts raises, the error reaches the caller, _WINCERTS is still
\* unset and _WINCERTSLOCK is free; the next call on the OS store branch
\* enters _load_wincerts again, and a load that does not fail sets _WINCERTS.
C9_FailedLoadRetried == []C9_State /\ [][C9_Step]_vars

\* after a failed store read, a later load succeeded and its caller got a
\* context with the handle
C9_Witness ==
    /\ failures >= 1
    /\ \E t \in threads :
          /\ call[t].pc = "done" /\ call[t].err = NoError
          /\ Did(call[t], "_load_wincerts")
          /\ call[t].passed = WINCERTS /\ WINCERTS # NoCertFile
          /\ CertFileName(WINCERTS) \in call[t].returned.locations
    /\ lock = NoThread

\* number of exit callbacks registered for CertFile i
Registered(i) == Cardinality({k \in DOMAIN atexit : atexit[k] = i})

\* no call is in progress
Quiescent == \A t \in threads : call[t].pc \in {"idle", "done"}

\* C10 as stated: once the calls that opened them are over, every CertFile
\* that was opened has exactly one release callback registered, failed and
\* retried store reads included; at exit every one has been closed exactly
\* once; and at most one handle is ever cached.
C10_Claim ==
    /\ Quiescent => \A i \in DOMAIN certfiles : Registered(i) = 1
    /\ exited => \A i \in DOMAIN certfiles : certfiles[i].closed = 1
    /\ WINCERTS # NoCertFile => atexit = <<WINCERTS>>

\* CertFile i has both stores and its release callback
FullyLoaded(i) ==
    /\ i \in DOMAIN certfiles
    /\ certfiles[i].stores = {"CA", "ROOT"}
    /\ Registered(i) = 1

\* C11: no caller observes a partially loaded cache. Whenever _WINCERTS is
\* not None, and for every handle a call read at line 128 (after the lock was
\* released), the CertFile has both the CA and the ROOT store and its release
\* callback is registered; a thread is inside the with statement only while
\* it holds the lock, so a caller that arrives during a load stays at line
\* 125 until the loading thread has left the with statement.
C11_NoPartialCache ==
    /\ WINCERTS # NoCertFile => FullyLoaded(WINCERTS)
    /\ \A t \in threads :
          /\ call[t].passed # NoCertFile => FullyLoaded(call[t].passed)
          /\ call[t].pc \in InWith => lock = t
          /\ (call[t].pc = "acquire" /\ lock # NoThread) =>
                (lock # t /\ call[lock].pc \in InWith)

\* of two concurrent callers, the one that did not load the store read, at
\* line 128, the handle the other had loaded
C11_Witness ==
    /\ Concurrent
    /\ \E t, u \in threads :
          /\ t # u
          /\ Did(call[u], "_load_wincerts") /\ call[u].err = NoError
          /\ ~Did(call[t], "_load_wincerts")
          /\ call[t].pc = "done" /\ call[t].passed = WINCERTS
          /\ WINCERTS # NoCertFile

\* a thread waits at line 125 while another is in the middle of a load
C11_WitnessBlocked ==
    \E t, u \in threads :
        /\ call[t].pc = "acquire"
        /\ call[u].pc = "addstore(ROOT)" /\ lock = u

\* what the returned context of frame f must carry for the options it was given
Assembled(f) ==
    /\ f.returned = f.ctx
    /\ f.returned.protocol = "PROTOCOL_SSLv23"
    /\ f.args.certfile # PyNone =>
           f.returned.cert_chain = <<f.args.certfile, f.args.keyfile>>
    /\ f.args.crlfile # PyNone =>
           /\ f.returned.verify_flags = "VERIFY_CRL_CHECK_LEAF"
           /\ Path(f.args.crlfile) \in f.returned.locations
    /\ f.args.ca_certs # PyNone => Path(f.args.ca_certs) \in f.returned.locations
    /\ (f.args.ca_certs = PyNone /\ f.args.cert_reqs # CERT_NONE) =>
           \/ f.returned.default_certs
           \/ f.returned.default_verify_paths
           \/ CertifiWhere \in f.returned.locations
           \/ f.passed # NoCertFile /\ CertFileName(f.passed) \in f.returned.locations
    /\ f.returned.verify_mode =
           IF f.args.cert_reqs = PyNone THEN CERT_REQUIRED ELSE f.args.cert_reqs

\* the error that the attempted step of a faulty input raises
Surfaced(f) ==
    /\ (Did(f, "load_cert_chain") /\ "certfile" \in f.faulty) => f.err = InvalidCertificate
    /\ (Did(f, "load_verify_locations(crlfile)") /\ "crlfile" \in f.faulty) =>
           f.err = InvalidCRL
    /\ (Did(f, "load_verify_locations(ca_certs)") /\ "ca_certs" \in f.faulty) =>
           f.err = InvalidCAFile
    /\ ((Sources(f) \ {"set_default_verify_paths", "with _WINCERTSLOCK"} # {}
           \/ Did(f, "load_verify_locations(_WINCERTS.name)"))
          /\ "system" \in f.faulty) => f.err = InvalidSystemCA

\* C12: context assembly is all or nothing. A finished call either returned
\* a context that carries every step asked for (client certificate, CRL flag
\* and file, trust material, verification mode) or raised and returned
\* nothing; the error of a failing step is the error of the call, and no step
\* is made twice in one call.
C12_AllOrNothing ==
    \A f \in Builds :
        /\ f.pc = "done" =>
              /\ f.err = NoError => Assembled(f)
              /\ f.err # NoError => f.returned = NoCtx
              /\ Surfaced(f)
        /\ f.pc # "done" => f.returned = NoCtx
        /\ Cardinality(Range(f.steps)) = Len(f.steps)

\* a call with every option given returned its context
C12_Witness ==
    \E f \in Returned :
        /\ f.args.certfile # PyNone /\ f.args.keyfile # PyNone
        /\ f.args.ca_certs # PyNone /\ f.args.crlfile # PyNone
        /\ f.args.cert_reqs = CERT_OPTIONAL
        /\ Assembled(f)

\* a call whose CRL file could not be read raised after loading the client
\* certificate and returned nothing
C12_WitnessFailed ==
    \E f \in Builds :
        /\ f.pc = "done" /\ f.err = InvalidCRL /\ f.returned = NoCtx
        /\ Did(f, "load_cert_chain")

\* the call with cert_reqs = CERT_NONE and nothing else
OnlyCertNone == [NoArgs EXCEPT !.cert_reqs = CERT_NONE]

\* C13 as stated: the call with cert_reqs = CERT_NONE and no other option
\* returns a context with verification disabled under every combination of
\* the capability flags, the availability of the ssl module included.
C13_Original ==
    \A f \in Builds :
        f.args = OnlyCertNone =>
            /\ f.pc = "done" /\ f.err = NoError
            /\ f.returned # NoCtx
            /\ f.returned.verify_mode = CERT_NONE

\* C13: with the ssl module, the call with cert_reqs = CERT_NONE and no other
\* option returns a context with verification disabled and no trust material,
\* under every combination of the other capability flags; without the ssl
\* module it raises TLSUnsupported.
C13_CertNone ==
    \A f \in Builds :
        f.args = OnlyCertNone =>
            /\ f.pc = "done"
            /\ IF env.HAVE_SSL
               THEN /\ f.err = NoError
                    /\ f.returned # NoCtx
                    /\ f.returned.verify_mode = CERT_NONE
                    /\ f.returned.locations = {}
                    /\ ~f.returned.default_certs /\ ~f.returned.default_verify_paths
                    /\ ~ChainRan(f)
               ELSE f.err = TLSUnsupported /\ f.returned = NoCtx

\* in a runtime with the ssl module and no trust source at all, the call
\* with only cert_reqs = CERT_NONE returned a context
C13_Witness ==
    \E f \in Returned :
        /\ NoTrustFlags /\ NoDefaultVerifyPaths /\ ~env.ctx_verify_flags
        /\ f.args = OnlyCertNone
        /\ f.returned.verify_mode = CERT_NONE

NoOldProtocols == {"OP_NO_SSLv2", "OP_NO_SSLv3"}

\* C15 as stated: whenever the context has the options attribute, every
\* returned context has both SSLv2 and SSLv3 disabled and keeps the options
\* it was created with; without the attribute no call fails for that reason.
C15_Original ==
    /\ env.ctx_options =>
          \A f \in Returned :
              /\ NoOldProtocols \subseteq f.returned.options
              /\ SSLContext.options \subseteq f.returned.options
    /\ ~env.ctx_options =>
          \A f \in Builds : ~Did(f, "options") /\ f.ctx.options = {}

\* C15: whenever the context has the options attribute, every returned
\* context has exactly the options it was created with plus those of
\* OP_NO_SSLv2 and OP_NO_SSLv3 that the ssl module defines (both, when it
\* defines both), and no option it was created with is cleared; without the
\* attribute the options are not touched, so no call fails for that reason.
C15_Hardening ==
    /\ env.ctx_options =>
          \A f \in Returned :
              /\ f.returned.options = SSLContext.options \cup env.ssl_ops
              /\ NoOldProtocols \subseteq env.ssl_ops =>
                     NoOldProtocols \subseteq f.returned.options
              /\ Did(f, "options")
    /\ ~env.ctx_options =>
          \A f \in Builds : ~Did(f, "options") /\ f.ctx.options = {}

\* a returned context with both versions disabled and OP_ALL still set
C15_Witness ==
    \E f \in Returned :
        /\ env.ctx_options
        /\ f.returned.options = {"OP_ALL", "OP_NO_SSLv2", "OP_NO_SSLv3"}

\* a returned context in a runtime whose ssl module has no OP_NO_SSLv3
C15_WitnessPartial ==
    \E f \in Returned :
        /\ env.ctx_options /\ env.ssl_ops = {"OP_NO_SSLv2"}
        /\ "OP_NO_SSLv3" \notin f.returned.options

\* a returned context in a runtime without the options attribute
C15_WitnessAbsent == \E f \in Returned : ~env.ctx_options

\* C16 as stated: validate_cert_reqs(option, None) returns None and raises
\* nothing, for every option name.
C16_Original ==
    \A f \in Validations :
        f.value = PyNone => f.err = NoError /\ f.ret = PyNone

\* C16: with the ssl module validate_cert_reqs(option, None) returns None and
\* raises nothing, for every option name; without the ssl module it raises
\* the ConfigurationError of lines 139-143 like every other value.
C16_NoneIsUnset ==
    \A f \in Validations :
        f.value = PyNone =>
            IF env.HAVE_SSL
            THEN f.err = NoError /\ f.ret = PyNone
            ELSE f.err = TLSUnsupportedOption(f.option)

\* None was validated and returned with the ssl module present
C16_Witness ==
    \E f \in Validations :
        /\ env.HAVE_SSL /\ f.value = PyNone
        /\ f.pc = "done" /\ f.err = NoError /\ f.ret = PyNone

\* None was validated without the ssl module
C16_WitnessNoSsl ==
    \E f \in Validations : ~env.HAVE_SSL /\ f.value = PyNone /\ f.pc = "done"

\* the statements of _load_wincerts, lines 74-79
InLoad ==
    {"CertFile", "addstore(CA)", "addstore(ROOT)", "atexit.register",
     "_WINCERTS = certfile"}

\* once _WINCERTS is set no thread is inside _load_wincerts
C17_State ==
    WINCERTS # NoCertFile => \A t \in threads : call[t].pc \notin InLoad

\* once _WINCERTS is set no step changes it or enters _load_wincerts
C17_Step ==
    WINCERTS # NoCertFile =>
        /\ WINCERTS' = WINCERTS
        /\ loads' = loads
        /\ \A t \in threads : call'[t].pc \in InLoad => call[t].pc \in InLoad

\* C17: once the OS store has been loaded _WINCERTS keeps the same handle for
\* the rest of the process (it is neither reset nor replaced), and no later
\* call on the OS-store branch enters _load_wincerts again.
C17_CacheStable == []C17_State /\ [][C17_Step]_vars

\* a later call found the cache set and went past line 126 without loading,
\* after an earlier store read had failed and been retried
C17_Witness ==
    /\ WINCERTS # NoCertFile /\ loads > 1
    /\ \E t \in threads :
          /\ call[t].pc = "release"
          /\ ~Did(call[t], "_load_wincerts")

\* the statements of get_ssl_context in the order of the source
StepOrder ==
    <<"SSLContext", "options", "load_cert_chain", "verify_flags",
      "load_verify_locations(crlfile)", "load_verify_locations(ca_certs)",
      "load_default_certs", "set_default_verify_paths", "with _WINCERTSLOCK",
      "_load_wincerts", "load_verify_locations(_WINCERTS.name)",
      "load_verify_locations(certifi.where())", "verify_mode">>

StepIndex(name) == CHOOSE i \in DOMAIN StepOrder : StepOrder[i] = name

\* the statements of frame f were made in the order of StepOrder
InOrder(f) ==
    /\ Range(f.steps) \subseteq Range(StepOrder)
    /\ \A i, j \in DOMAIN f.steps :
          i < j => StepIndex(f.steps[i]) < StepIndex(f.steps[j])

\* the statement that raised was the last one made by frame f
LastStep(f) == IF f.steps = <<>> THEN "" ELSE f.steps[Len(f.steps)]

\* the error of the earliest failing step among the first four
EarliestError(f) ==
    IF "certfile" \in f.faulty THEN InvalidCertificate
    ELSE IF f.args.crlfile # PyNone /\ ~env.ctx_verify_flags THEN UnsupportedCRL
    ELSE IF "crlfile" \in f.faulty THEN InvalidCRL
    ELSE IF "ca_certs" \in f.faulty THEN InvalidCAFile
    ELSE NoError

\* C18: get_ssl_context makes its statements in a fixed order: protocol
\* hardening, client certificate, CRL capability check, CRL load, then the
\* explicit CA file or the chain, then the verification mode. With several
\* faulty inputs the error is that of the earliest failing step, and no
\* statement after the failing one is made: a call that failed before the
\* trust step did not consult any trust source nor the OS store.
C18_FixedOrder ==
    \A f \in Builds :
        /\ InOrder(f)
        /\ (env.HAVE_SSL /\ f.pc = "done") =>
              /\ EarliestError(f) # NoError => f.err = EarliestError(f)
              /\ f.err = InvalidCertificate => LastStep(f) = "load_cert_chain"
              /\ f.err = UnsupportedCRL =>
                     LastStep(f) \in {"SSLContext", "options", "load_cert_chain"}
              /\ f.err = InvalidCRL => LastStep(f) = "load_verify_locations(crlfile)"
              /\ f.err = InvalidCAFile => LastStep(f) = "load_verify_locations(ca_certs)"
              /\ f.err = NoTrustMaterial => Sources(f) = {} /\ ~Did(f, "verify_mode")
              /\ f.err = InvalidSystemCA =>
                     LastStep(f) \in SourceSteps \cup {"load_verify_locations(_WINCERTS.name)"}
              /\ f.err = TrustStoreUnavailable => LastStep(f) = "_load_wincerts"
              /\ f.err = InvalidVerifyMode => LastStep(f) = "verify_mode"
              /\ f.err = NoError => LastStep(f) = "verify_mode"
        /\ FailedBeforeTrust(f) =>
              /\ ~ChainRan(f)
              /\ ~Did(f, "load_verify_locations(ca_certs)")
              /\ ~Did(f, "_load_wincerts")
              /\ f.certfile = NoCertFile /\ f.passed = NoCertFile

\* a call with an unreadable client certificate, a CRL file in a runtime
\* without CRL support and an unreadable CA file raised the error of the
\* client certificate
C18_Witness ==
    \E f \in Builds :
        /\ f.pc = "done"
        /\ {"certfile", "crlfile", "ca_certs"} \subseteq f.faulty
        /\ ~env.ctx_verify_flags
        /\ f.err = InvalidCertificate

\* a call with a CRL file and no CA file in the runtime of the OS store
\* raised UnsupportedCRL and left the store unloaded
C18_WitnessStore ==
    \E f \in Builds :
        /\ f.pc = "done" /\ f.err = UnsupportedCRL
        /\ FirstApplicable = "with _WINCERTSLOCK"
        /\ f.args.ca_certs = PyNone /\ f.args.cert_reqs # CERT_NONE
        /\ WINCERTS = NoCertFile

\* frame f is of a call that has got to line 125
OnStoreBranch(f) == Did(f, "with _WINCERTSLOCK")

\* a step of a call that is not on the OS-store branch
C19_Step ==
    \A t \in threads :
        (call'[t] # call[t] /\ ~OnStoreBranch(call[t]) /\ ~OnStoreBranch(call'[t])) =>
            UNCHANGED <<WINCERTS, lock, atexit, certfiles>>

\* C19: only the OS-store branch touches the shared state. Every step of a
\* get_ssl_context call that does not get to the OS-store branch, and every
\* validate_cert_reqs call, leaves _WINCERTS, _WINCERTSLOCK and the
\* registered exit callbacks (and the CertFiles) as they were.
C19_Frame == [][C19_Step]_vars

\* with the cache loaded, a call with a CA file and a call of
\* validate_cert_reqs have each been made and the cache is as it was
C19_Witness ==
    /\ WINCERTS # NoCertFile /\ lock = NoThread /\ Len(atexit) = 1
    /\ \E t \in threads :
          /\ call[t].pc = "done"
          /\ \/ call[t].op = "validate_cert_reqs"
             \/ call[t].op = "get_ssl_context" /\ call[t].args.ca_certs # PyNone

\* C20: validate_cert_reqs is idempotent on its own results: when
\* validate_cert_reqs(option, v) returns r without an error, then
\* validate_cert_reqs(option, r) returns r without an error.
C20_Idempotent ==
    \A f \in Validations :
        (f.pc = "done" /\ f.err = NoError) =>
            LET again == validate_cert_reqs(Idle, f.option, f.ret)
            IN  again.err = NoError /\ again.ret = f.ret

\* a name was resolved to a mode, which is not the value given, and the mode
\* validates to itself
C20_Witness ==
    \E f \in Validations :
        /\ f.pc = "done" /\ f.err = NoError
        /\ f.value = PyStr("CERT_OPTIONAL") /\ f.ret = CERT_OPTIONAL
        /\ validate_cert_reqs(Idle, f.option, f.ret).ret = CERT_OPTIONAL

====
